---- MODULE Spec2Model ----
(***************************************************************************)
(* A model of music_service_async_interface/__init__.py:                   *)
(*   - Session.object_from_url and Session.parse_urls (URL resolution),    *)
(*   - AudioQuality's ordering and the Session's quality settings,         *)
(*   - ObjectCollection[...]: the memoized capability types, collection_of *)
(*     and iter.                                                           *)
(* Backend code (from_url, is_valid_url, the class statements of a         *)
(* backend) is abstract in the library; it is modelled by a small test     *)
(* backend whose answers are tabulated below.                              *)
(***************************************************************************)
EXTENDS Integers, Sequences, FiniteSets, TLC

VARIABLES
    \* ---- resolution -----------------------------------------------------
    defined,      \* kinds whose class statement has run, in definition order
    session,      \* "none" | "live": whether Session.__init__ has completed
    kindsAtInit,  \* history: `defined` when the Session was constructed
    call,         \* per task: the object_from_url invocation it is in
    prevCall,     \* history: how the caller's previous invocation ended
    \* ---- parse_urls -----------------------------------------------------
    long_string,  \* the argument of parse_urls, as whitespace runs and words
    gen,          \* the async generator returned by parse_urls
    yielded,      \* objects delivered to the consumer, in order
    prechecked,   \* history: tokens handed to is_valid_url, in order
    attempts,     \* history: resolutions started by the generator
    genError,     \* the condition raised to the consumer, or "none"
    \* ---- audio quality --------------------------------------------------
    sessQuality,  \* the Session subclass's _quality attribute
    required,     \* sess._required_audio_quality
    preferred,    \* sess._preferred_audio_quality
    sessOp,       \* history: the last construction or assignment and its outcome
    cmp,          \* history: the last comparison evaluated and its outcome
    \* ---- collections ----------------------------------------------------
    classes,      \* the classes created so far: capability types and subclasses
    sets,         \* the heap of set objects that collection_of attributes name
    cache,        \* lru_cache of ObjectCollection.__class_getitem__
    lastGet,      \* history: the last ObjectCollection[...] and what it returned
    lastIter      \* history: the last iter(...) call and its outcome

resolveVars == <<defined, session, kindsAtInit, call, prevCall>>
scanVars    == <<long_string, gen, yielded, prechecked, attempts, genError>>
qualityVars == <<sessQuality, required, preferred, sessOp, cmp>>
collVars    == <<classes, sets, cache, lastGet, lastIter>>
vars        == <<resolveVars, scanVars, qualityVars, collVars>>

----------------------------------------------------------------------------
(* Bounds *)

\* longest text handed to parse_urls, in segments (whitespace runs and words)
MaxSegs == 5

\* class statements extending capability types
MaxClasses == 2

\* bases named in one class statement
MaxBases == 2

\* item kinds that are subscripted again while new ones keep being added
MaxRepeatKinds == 1

----------------------------------------------------------------------------
(* The test backend: a root Object type, its kinds and their from_url *)

Root == "TestObject"

Kinds == {"Track", "Album", "Playlist", "Single"}

\* the base named in a kind's class statement
Parent(k) == IF k = "Single" THEN "Track" ELSE Root

Whitespace == " "

Words == {"foo", "svc/track/1", "svc/album/2", "svc/bad/3", "svc/boom/5", "svc/single/6"}

\* Session.is_valid_url of the test backend
is_valid_url(url) == url # "foo"

\* cls.from_url(sess, url) of the test backend: "ok" (an object of cls is
\* returned) or the name of the exception raised
from_url(cls, url) ==
    CASE url = "foo"          -> IF cls = "Track" THEN "ok" ELSE "InvalidURL"
      [] url = "svc/track/1"  -> IF cls \in {"Track", "Playlist"} THEN "ok"
                                 ELSE IF cls = "Album" THEN "InvalidURL"
                                 ELSE "NotImplementedError"
      [] url = "svc/album/2"  -> IF cls = "Album" THEN "ok"
                                 ELSE IF cls = "Playlist" THEN "NotImplementedError"
                                 ELSE "InvalidURL"
      [] url = "svc/bad/3"    -> IF cls = "Playlist" THEN "NotImplementedError"
                                 ELSE "InvalidURL"
      [] url = "svc/boom/5"   -> IF cls = "Album" THEN "ConnectionError"
                                 ELSE IF cls = "Playlist" THEN "ok"
                                 ELSE "InvalidURL"
      [] url = "svc/single/6" -> IF cls = "Single" THEN "ok" ELSE "InvalidURL"

NoObject == [kind |-> "none", url |-> "none"]

Tasks == {"user", "gen"}

----------------------------------------------------------------------------
(* AudioQuality: enumerations compared by order of definition *)

\* the enumerations of the test backends; AudioQuality itself has no member
QualityClasses == {"AudioQuality", "TestAudioQuality", "OtherAudioQuality"}

\* cls._member_names_: the member names in order of definition
_member_names_(cls) ==
    CASE cls = "TestAudioQuality"  -> <<"LOW", "MEDIUM", "HIGH">>
      [] cls = "OtherAudioQuality" -> <<"LOSSLESS", "LOSSY">>
      [] OTHER                     -> <<>>

\* the value each member carries: 'low', 'med', 'high' as in the docstring
MemberValue(m) ==
    CASE m.name = "LOW"      -> "low"
      [] m.name = "MEDIUM"   -> "med"
      [] m.name = "HIGH"     -> "high"
      [] m.name = "LOSSLESS" -> "flac"
      [] m.name = "LOSSY"    -> "aac"
      [] OTHER               -> m.name

\* iterating an enumeration: its members in order of definition
MembersOf(cls) ==
    [i \in 1..Len(_member_names_(cls)) |-> [cls |-> cls, name |-> _member_names_(cls)[i]]]

\* values that are no AudioQuality at all
Foreign == {[cls |-> "str", name |-> "high"], [cls |-> "NoneType", name |-> "None"]}

QualityMembers ==
    UNION {{MembersOf(cls)[i] : i \in 1..Len(MembersOf(cls))} : cls \in QualityClasses}

\* list.index(x): the position of the first x
index(seq, x) == CHOOSE i \in 1..Len(seq) : seq[i] = x /\ \A j \in 1..(i - 1) : seq[j] # x

Bool(b) == IF b THEN "True" ELSE "False"

\* position of the member's value when the values are sorted as strings
ValueRank(m) ==
    Cardinality({n \in QualityMembers :
        n.cls = m.cls /\
        << MemberValue(n), MemberValue(m) >> \in
            {<<"high", "low">>, <<"high", "med">>, <<"low", "med">>, <<"aac", "flac">>}})

__lt__NoClassCheck(self, other) ==
    Bool(index(_member_names_(self.cls), self.name)
            < index(_member_names_(other.cls), other.name))

__lt__ByValue(self, other) ==
    IF self.cls = other.cls
    THEN Bool(ValueRank(self) < ValueRank(other))
    ELSE "NotImplemented"

__ge__(self, other) ==
    IF self.cls = other.cls
    THEN Bool(index(_member_names_(self.cls), self.name)
                >= index(_member_names_(self.cls), other.name))
    ELSE "NotImplemented"

__gt__(self, other) ==
    IF self.cls = other.cls
    THEN Bool(index(_member_names_(self.cls), self.name)
                > index(_member_names_(self.cls), other.name))
    ELSE "NotImplemented"

__le__Strict(self, other) ==
    IF self.cls = other.cls
    THEN Bool(index(_member_names_(self.cls), self.name)
                < index(_member_names_(self.cls), other.name))
    ELSE "NotImplemented"

__le__(self, other) ==
    IF self.cls = other.cls
    THEN Bool(index(_member_names_(self.cls), self.name)
                <= index(_member_names_(self.cls), other.name))
    ELSE "NotImplemented"

__lt__(self, other) ==
    IF self.cls = other.cls
    THEN Bool(index(_member_names_(self.cls), self.name)
                < index(_member_names_(self.cls), other.name))
    ELSE "NotImplemented"

CompareOps == {"<", "<=", ">", ">="}

\* the comparisons of the AudioQuality docstring and the values it shows
DocstringExample ==
    LET T(n) == [cls |-> "TestAudioQuality", name |-> n]
    IN  { [op |-> ">",  a |-> T("LOW"),    b |-> T("HIGH"), result |-> "False"],
          [op |-> ">=", a |-> T("LOW"),    b |-> T("HIGH"), result |-> "False"],
          [op |-> "<",  a |-> T("LOW"),    b |-> T("HIGH"), result |-> "True"],
          [op |-> "<=", a |-> T("LOW"),    b |-> T("HIGH"), result |-> "True"],
          [op |-> ">",  a |-> T("MEDIUM"), b |-> T("LOW"),  result |-> "True"],
          [op |-> ">",  a |-> T("MEDIUM"), b |-> T("HIGH"), result |-> "False"],
          [op |-> "<",  a |-> T("MEDIUM"), b |-> T("HIGH"), result |-> "False"] }

\* the method Python calls on the right operand when the left one's returns
\* NotImplemented
Reflected(op) ==
    CASE op = "<" -> ">" [] op = "<=" -> ">=" [] op = ">" -> "<" [] op = ">=" -> "<="

\* type(self).__op__(self, other); the comparison methods of str and NoneType
\* answer NotImplemented for an operand of another type
Method(op, self, other) ==
    IF self.cls \in QualityClasses
    THEN CASE op = "<"  -> __lt__(self, other)
           [] op = "<=" -> __le__(self, other)
           [] op = ">"  -> __gt__(self, other)
           [] op = ">=" -> __ge__(self, other)
    ELSE "NotImplemented"

\* `a op b` as Python evaluates it: the left operand's method, then the right
\* operand's reflected method, then TypeError
RichCompare(op, a, b) ==
    LET r == Method(op, a, b)
    IN  IF r # "NotImplemented" THEN r
        ELSE LET q == Method(Reflected(op), b, a)
             IN  IF q # "NotImplemented" THEN q ELSE "TypeError"

RECURSIVE Fold(_, _, _)
\* the loop of min() and max(): the running best is replaced by a later item
\* only when `item op best` is true
Fold(op, best, rest) ==
    IF rest = <<>> THEN best
    ELSE Fold(op, IF RichCompare(op, Head(rest), best) = "True" THEN Head(rest) ELSE best,
              Tail(rest))

NoQuality == [cls |-> "none", name |-> "none"]

\* min(cls) and max(cls) over a non-empty enumeration
min(cls) == Fold("<", Head(MembersOf(cls)), Tail(MembersOf(cls)))

max(cls) == Fold(">", Head(MembersOf(cls)), Tail(MembersOf(cls)))

\* a caller evaluates `a op b`; at least one operand is an AudioQuality member
Compare(op, a, b) ==
    /\ a \in QualityMembers \/ b \in QualityMembers
    /\ cmp' = [op |-> op, a |-> a, b |-> b, result |-> RichCompare(op, a, b)]
    /\ UNCHANGED <<resolveVars, scanVars, sessQuality, required, preferred, sessOp, collVars>>

----------------------------------------------------------------------------
(* Session: construction and the two quality settings *)

isinstanceOfAnyQuality(quality, cls) == quality.cls \in QualityClasses

\* isinstance(quality, cls)
isinstance(quality, cls) == quality.cls = cls

NoOp == [op |-> "none", value |-> NoQuality, outcome |-> "none",
         before |-> <<NoQuality, NoQuality>>]

\* Session.__init__: the two hasattr checks, then the defaults
SessionInit ==
    /\ session = "none"
    /\ IF sessQuality = "unset"
       THEN /\ sessOp' = [NoOp EXCEPT !.op = "init", !.outcome = "TypeError"]
            /\ UNCHANGED <<session, kindsAtInit, required, preferred>>
       ELSE IF MembersOf(sessQuality) = <<>>
       THEN /\ sessOp' = [NoOp EXCEPT !.op = "init", !.outcome = "ValueError"]
            /\ UNCHANGED <<session, kindsAtInit, required, preferred>>
       ELSE /\ session' = "live"
            /\ kindsAtInit' = defined
            /\ required' = min(sessQuality)
            /\ preferred' = max(sessQuality)
            /\ sessOp' = [NoOp EXCEPT !.op = "init", !.outcome = "ok"]
    /\ UNCHANGED <<defined, call, prevCall, scanVars, sessQuality, cmp, collVars>>

\* sess.preferred_audio_quality = quality
SetPreferred(quality) ==
    /\ session = "live"
    /\ sessOp' = [op |-> "preferred", value |-> quality,
                  outcome |-> IF isinstance(quality, sessQuality) THEN "ok" ELSE "TypeError",
                  before |-> <<preferred, required>>]
    /\ preferred' = IF isinstance(quality, sessQuality) THEN quality ELSE preferred
    /\ UNCHANGED <<resolveVars, scanVars, sessQuality, required, cmp, collVars>>

\* sess.required_audio_quality = quality
SetRequired(quality) ==
    /\ session = "live"
    /\ sessOp' = [op |-> "required", value |-> quality,
                  outcome |-> IF isinstance(quality, sessQuality) THEN "ok" ELSE "TypeError",
                  before |-> <<preferred, required>>]
    /\ required' = IF isinstance(quality, sessQuality) THEN quality ELSE required
    /\ UNCHANGED <<resolveVars, scanVars, sessQuality, preferred, cmp, collVars>>

----------------------------------------------------------------------------
(* Session.object_from_url *)

\* cls.__subclasses__(): the direct subclasses, in definition order
SubclassesCachedAtInit(cls) == SelectSeq(kindsAtInit, LAMBDA k : Parent(k) = cls)

SubclassesReversed(cls) ==
    LET s == SelectSeq(defined, LAMBDA k : Parent(k) = cls)
    IN  [i \in 1..Len(s) |-> s[Len(s) + 1 - i]]

Subclasses(cls) == SelectSeq(defined, LAMBDA k : Parent(k) = cls)

\* except (InvalidURL, NotImplementedError): pass
IsDeclineOnlyInvalidURL(outcome) == outcome = "InvalidURL"

IsDeclineAnything(outcome) == outcome # "ok"

IsDecline(outcome) == outcome \in {"InvalidURL", "NotImplementedError"}

IdleCall ==
    [pc |-> "idle", url |-> "none", kinds |-> <<>>, idx |-> 0, invoked |-> <<>>,
     result |-> NoObject, error |-> "none", startDefined |-> <<>>, log |-> <<>>]

\* history: a from_url invocation starts / completes with an outcome
Started(cls) == [ev |-> "start", kind |-> cls, outcome |-> "none"]

Ended(cls, out) == [ev |-> "end", kind |-> cls, outcome |-> out]

\* every kind's from_url is started at once (as asyncio.gather would)
BeginCallAllAtOnce(url) ==
    LET ks == Subclasses(Root)
        c  == [IdleCall EXCEPT !.url = url, !.startDefined = defined]
    IN  IF ks = <<>>
        THEN [c EXCEPT !.pc = "raised", !.error = "InvalidURL"]
        ELSE [c EXCEPT !.pc = "awaiting", !.kinds = ks, !.idx = 1, !.invoked = ks,
                       !.log = [i \in 1..Len(ks) |-> Started(ks[i])]]

\* the call up to its first suspension: the kind list is enumerated and the
\* first kind's from_url is awaited; with no kinds the loop body never runs
BeginCall(url) ==
    LET ks == Subclasses(Root)
        c  == [IdleCall EXCEPT !.url = url, !.startDefined = defined]
    IN  IF ks = <<>>
        THEN [c EXCEPT !.pc = "raised", !.error = "InvalidURL"]
        ELSE [c EXCEPT !.pc = "awaiting", !.kinds = ks, !.idx = 1,
                       !.invoked = <<ks[1]>>, !.log = <<Started(ks[1])>>]

\* the awaited from_url completes; on a decline the next kind's from_url is
\* awaited, and after the last kind InvalidURL is raised
EndTrial(c) ==
    LET cls == c.kinds[c.idx]
        out == from_url(cls, c.url)
        d   == [c EXCEPT !.log = Append(c.log, Ended(cls, out))]
    IN  IF out = "ok"
        THEN [d EXCEPT !.pc = "returned", !.result = [kind |-> cls, url |-> c.url]]
        ELSE IF IsDecline(out)
        THEN IF c.idx < Len(c.kinds)
             THEN [d EXCEPT !.idx = c.idx + 1,
                            !.invoked = Append(c.invoked, c.kinds[c.idx + 1]),
                            !.log = Append(d.log, Started(c.kinds[c.idx + 1]))]
             ELSE [d EXCEPT !.pc = "raised", !.error = "InvalidURL"]
        ELSE [d EXCEPT !.pc = "raised", !.error = out]

Finished(c) == c.pc \in {"returned", "raised"}

\* a class statement of the backend: `class k(Parent(k))`
DefineKind(k) ==
    /\ k \notin {defined[i] : i \in 1..Len(defined)}
    /\ Parent(k) = Root \/ Parent(k) \in {defined[i] : i \in 1..Len(defined)}
    /\ defined' = Append(defined, k)
    /\ UNCHANGED <<session, kindsAtInit, call, prevCall, scanVars>>
    /\ UNCHANGED <<qualityVars, collVars>>

\* a caller awaits sess.object_from_url(url)
ObjectFromUrlCall(url) ==
    /\ session = "live"
    /\ call["user"].pc \in {"idle", "returned", "raised"}
    /\ call' = [call EXCEPT !["user"] = BeginCall(url)]
    /\ prevCall' = [url |-> call["user"].url, pc |-> call["user"].pc,
                    error |-> call["user"].error]
    /\ UNCHANGED <<defined, session, kindsAtInit, scanVars>>
    /\ UNCHANGED <<qualityVars, collVars>>

\* the from_url that task t awaits completes
TrialEnd(t) ==
    /\ call[t].pc = "awaiting"
    /\ call' = [call EXCEPT ![t] = EndTrial(call[t])]
    /\ UNCHANGED <<defined, session, kindsAtInit, prevCall, scanVars>>
    /\ UNCHANGED <<qualityVars, collVars>>

----------------------------------------------------------------------------
(* Session.parse_urls *)

\* long_string.split(): the words between the whitespace runs
Split(s) == SelectSeq(s, LAMBDA x : x # Whitespace)

\* except InvalidURL: pass
RecoverableNothing(err) == FALSE

RecoverableEverything(err) == TRUE

Recoverable(err) == err = "InvalidURL"

\* `requested` is history: the items the consumer has asked for so far
NewGen == [state |-> "created", words |-> <<>>, i |-> 0, requested |-> 0]

\* texts: whitespace runs and words alternate
Texts ==
    UNION {{s \in [1..n -> Words \cup {Whitespace}] :
                \A j \in 1..(n - 1) : (s[j] = Whitespace) # (s[j + 1] = Whitespace)}
           : n \in 0..MaxSegs}

\* the consumer awaits __anext__: the body starts, or resumes after its yield
GenNext ==
    /\ gen.state \in {"created", "suspended"}
    /\ gen' = IF gen.state = "created"
              THEN [state |-> "running", words |-> Split(long_string), i |-> 1,
                    requested |-> 1]
              ELSE [gen EXCEPT !.state = "running", !.i = gen.i + 1,
                               !.requested = gen.requested + 1]
    /\ UNCHANGED <<resolveVars, long_string, yielded, prechecked, attempts, genError>>
    /\ UNCHANGED <<qualityVars, collVars>>

\* every token is resolved, whatever is_valid_url says
GenLoopNoPrecheck ==
    /\ gen.state = "running"
    /\ call["gen"].pc = "idle"
    /\ IF gen.i > Len(gen.words)
       THEN /\ gen' = [gen EXCEPT !.state = "closed"]
            /\ UNCHANGED <<call, prechecked, attempts>>
       ELSE LET word == gen.words[gen.i]
            IN  /\ prechecked' = Append(prechecked, word)
                /\ IF is_valid_url(word) \/ TRUE
                   THEN /\ call' = [call EXCEPT !["gen"] = BeginCall(word)]
                        /\ attempts' = Append(attempts,
                                              [url |-> word, defined |-> defined])
                        /\ UNCHANGED gen
                   ELSE /\ gen' = [gen EXCEPT !.i = gen.i + 1]
                        /\ UNCHANGED <<call, attempts>>
    /\ UNCHANGED <<defined, session, kindsAtInit, prevCall, long_string, yielded, genError>>
    /\ UNCHANGED <<qualityVars, collVars>>

\* one turn of `for word in ...`: the pre-check, and the start of a resolution
GenLoop ==
    /\ gen.state = "running"
    /\ call["gen"].pc = "idle"
    /\ IF gen.i > Len(gen.words)
       THEN /\ gen' = [gen EXCEPT !.state = "closed"]
            /\ UNCHANGED <<call, prechecked, attempts>>
       ELSE LET word == gen.words[gen.i]
            IN  /\ prechecked' = Append(prechecked, word)
                /\ IF is_valid_url(word)
                   THEN /\ call' = [call EXCEPT !["gen"] = BeginCall(word)]
                        /\ attempts' = Append(attempts,
                                              [url |-> word, defined |-> defined])
                        /\ UNCHANGED gen
                   ELSE /\ gen' = [gen EXCEPT !.i = gen.i + 1]
                        /\ UNCHANGED <<call, attempts>>
    /\ UNCHANGED <<defined, session, kindsAtInit, prevCall, long_string, yielded, genError>>
    /\ UNCHANGED <<qualityVars, collVars>>

\* the objects are collected without waiting for the consumer
GenHandleEager ==
    /\ gen.state = "running"
    /\ Finished(call["gen"])
    /\ call' = [call EXCEPT !["gen"] = IdleCall]
    /\ IF call["gen"].pc = "returned"
       THEN /\ yielded' = Append(yielded, call["gen"].result)
            /\ gen' = [gen EXCEPT !.i = gen.i + 1]
            /\ UNCHANGED genError
       ELSE IF Recoverable(call["gen"].error)
       THEN /\ gen' = [gen EXCEPT !.i = gen.i + 1]
            /\ UNCHANGED <<yielded, genError>>
       ELSE /\ gen' = [gen EXCEPT !.state = "closed"]
            /\ genError' = call["gen"].error
            /\ UNCHANGED yielded
    /\ UNCHANGED <<defined, session, kindsAtInit, prevCall, long_string, prechecked, attempts>>
    /\ UNCHANGED <<qualityVars, collVars>>

\* object_from_url is over: yield its object, skip the token, or let the
\* exception end the generator
GenHandle ==
    /\ gen.state = "running"
    /\ Finished(call["gen"])
    /\ call' = [call EXCEPT !["gen"] = IdleCall]
    /\ IF call["gen"].pc = "returned"
       THEN /\ yielded' = Append(yielded, call["gen"].result)
            /\ gen' = [gen EXCEPT !.state = "suspended"]
            /\ UNCHANGED genError
       ELSE IF Recoverable(call["gen"].error)
       THEN /\ gen' = [gen EXCEPT !.i = gen.i + 1]
            /\ UNCHANGED <<yielded, genError>>
       ELSE /\ gen' = [gen EXCEPT !.state = "closed"]
            /\ genError' = call["gen"].error
            /\ UNCHANGED yielded
    /\ UNCHANGED <<defined, session, kindsAtInit, prevCall, long_string, prechecked, attempts>>
    /\ UNCHANGED <<qualityVars, collVars>>

\* the consumer stops iterating and drops the generator
ConsumerStop ==
    /\ gen.state \in {"created", "suspended"}
    /\ gen' = [gen EXCEPT !.state = "closed"]
    /\ UNCHANGED <<resolveVars, long_string, yielded, prechecked, attempts, genError>>
    /\ UNCHANGED <<qualityVars, collVars>>

----------------------------------------------------------------------------
(* ObjectCollection: capability types, collection_of and iter *)

\* Classes are numbered in order of creation: class n is classes[n], and -n
\* is the CollectionHelper class created together with capability type n.
\* ABC and object, which end every mro and define neither collection_of nor
\* an __init_subclass__ that does anything, are left out of the mro.
ObjectCls == 0

\* item kinds are numbers; NotAnObject is a class that is no Object (str)
NotAnObject == 0

\* collection_type.__name__
ItemName(k) ==
    CASE k = 1 -> "Track" [] k = 2 -> "Album" [] k = 3 -> "Playlist"
      [] OTHER -> "kind" \o ToString(k)

\* str.lower()
lower(name) ==
    CASE name = "Track" -> "track" [] name = "Album" -> "album"
      [] name = "Playlist" -> "playlist" [] OTHER -> name

plural_noun(val) == val \o "s"

\* the name of the producer of item kind k
ProducerName(k) == plural_noun(lower(ItemName(k)))

IsCapability(n) == n > 0 /\ classes[n].tag = "capability"

IsUserClass(n) == n > 0 /\ classes[n].tag = "user"

IsHelper(n) == n < 0

InSeq(x, seq) == \E i \in 1..Len(seq) : seq[i] = x

RECURSIVE Linearizable(_)
\* whether the C3 merge of the lists succeeds
Linearizable(lists) ==
    LET ne == SelectSeq(lists, LAMBDA l : l # <<>>)
    IN  IF ne = <<>> THEN TRUE
        ELSE LET cands == {i \in 1..Len(ne) :
                              \A j \in 1..Len(ne) : ~InSeq(Head(ne[i]), Tail(ne[j]))}
             IN  IF cands = {} THEN FALSE
                 ELSE LET i == CHOOSE c \in cands : \A d \in cands : c <= d
                          h == Head(ne[i])
                      IN  Linearizable([k \in 1..Len(ne) |->
                                IF Head(ne[k]) = h THEN Tail(ne[k]) ELSE ne[k]])

RECURSIVE Merge(_)
\* the C3 merge: the first head that is in no list's tail, repeatedly
Merge(lists) ==
    LET ne == SelectSeq(lists, LAMBDA l : l # <<>>)
    IN  IF ne = <<>> THEN <<>>
        ELSE LET cands == {i \in 1..Len(ne) :
                              \A j \in 1..Len(ne) : ~InSeq(Head(ne[i]), Tail(ne[j]))}
                 i == CHOOSE c \in cands : \A d \in cands : c <= d
                 h == Head(ne[i])
             IN  <<h>> \o Merge([k \in 1..Len(ne) |->
                                    IF Head(ne[k]) = h THEN Tail(ne[k]) ELSE ne[k]])

\* the mro of a class that exists
MroOf(n) == IF n > 0 THEN classes[n].mro ELSE <<n>>

BaseLists(bases) == [i \in 1..Len(bases) |-> MroOf(bases[i])] \o <<bases>>

\* cls.collection_of read through the classes of `mro` after cls itself: the
\* heap reference of the first one that has the attribute; 0 stands for the
\* empty set() in the body of a CollectionHelper
RECURSIVE LookupCollectionOf(_)
LookupCollectionOf(mro) ==
    IF mro = <<>> THEN 0
    ELSE IF IsHelper(Head(mro)) THEN 0
    ELSE IF Head(mro) > 0 /\ classes[Head(mro)].own # 0 THEN classes[Head(mro)].own
    ELSE LookupCollectionOf(Tail(mro))

RECURSIVE __init_subclass__(_, _, _, _)
\* CollectionHelper.__init_subclass__ run for a new class by each helper of
\* its mro. `items` are the helpers' item kinds in the order their bodies run
\* (each calls super().__init_subclass__() first: the last helper of the mro
\* runs first); `own` is the new class's own collection_of (0: none yet)
__init_subclass__(items, mroTail, own, heap) ==
    IF items = <<>> THEN [own |-> own, sets |-> heap]
    ELSE LET collection_type == Head(items)
             ref == IF own # 0 THEN own ELSE LookupCollectionOf(mroTail)
         IN  IF ref # 0 /\ heap[ref] # {}
             THEN __init_subclass__(Tail(items), mroTail, own,
                                    [heap EXCEPT ![ref] = @ \cup {collection_type}])
             ELSE __init_subclass__(Tail(items), mroTail, Len(heap) + 1,
                                    Append(heap, {collection_type}))

\* the item kinds of the helpers in `mro`, last helper first; the helper of
\* the class being created (newId) has item kind newItem
HelperItemsReversed(mro, newId, newItem) ==
    LET hs == SelectSeq(mro, IsHelper)
    IN  [i \in 1..Len(hs) |->
            LET h == hs[Len(hs) + 1 - i]
            IN  IF -h = newId THEN newItem ELSE classes[-h].item]

\* lru_cache's default maxsize
lru_maxsize == 128

CachedType(k) ==
    LET i == CHOOSE i \in 1..Len(cache) : cache[i].key = k IN cache[i].type

IsCached(k) == \E i \in 1..Len(cache) : cache[i].key = k

\* ObjectCollection[collection_type]: __class_getitem__ under lru_cache. The
\* cache is kept least recently used first.
__class_getitem__(collection_type) ==
    IF IsCached(collection_type)
    THEN \* a hit: the entry becomes the most recently used one
         /\ cache' = SelectSeq(cache, LAMBDA e : e.key # collection_type)
                        \o <<[key |-> collection_type, type |-> CachedType(collection_type)]>>
         /\ lastGet' = [kind |-> collection_type, outcome |-> "ok",
                        type |-> CachedType(collection_type)]
         /\ UNCHANGED <<classes, sets>>
    ELSE IF collection_type = NotAnObject
    THEN \* issubclass fails: TypeError, and nothing is cached
         /\ lastGet' = [kind |-> collection_type, outcome |-> "TypeError", type |-> 0]
         /\ UNCHANGED <<classes, sets, cache>>
    ELSE \* a miss: type(name, (Object, CollectionHelper, ABC), {...})
         LET n   == Len(classes) + 1
             mro == <<n, ObjectCls, -n>>
             r   == __init_subclass__(HelperItemsReversed(mro, n, collection_type),
                                      Tail(mro), 0, sets)
             e   == [key |-> collection_type, type |-> n]
         IN  /\ classes' = Append(classes,
                    [tag |-> "capability", item |-> collection_type,
                     bases |-> <<ObjectCls, -n>>, mro |-> mro, own |-> r.own,
                     body |-> {ProducerName(collection_type)}])
             /\ sets' = r.sets
             /\ cache' = IF Len(cache) >= lru_maxsize THEN Append(Tail(cache), e)
                         ELSE Append(cache, e)
             /\ lastGet' = [kind |-> collection_type, outcome |-> "ok", type |-> n]

\* a caller evaluates ObjectCollection[k]
GetItem(k) ==
    /\ __class_getitem__(k)
    /\ UNCHANGED <<resolveVars, scanVars, qualityVars, lastIter>>

\* a class statement `class C(bases): body`, where body defines the producers
\* named in it (and the five abstract methods of Object)
DefineClass(bases, body) ==
    /\ Len(bases) > 0
    /\ \A i \in 1..Len(bases) : bases[i] \in 1..Len(classes)
    /\ \A i, j \in 1..Len(bases) : i # j => bases[i] # bases[j]
    /\ Linearizable(BaseLists(bases))
    /\ LET n   == Len(classes) + 1
           mro == <<n>> \o Merge(BaseLists(bases))
           r   == __init_subclass__(HelperItemsReversed(mro, n, NotAnObject),
                                    Tail(mro), 0, sets)
       IN  /\ classes' = Append(classes,
                  [tag |-> "user", item |-> NotAnObject, bases |-> bases,
                   mro |-> mro, own |-> r.own, body |-> body])
           /\ sets' = r.sets
    /\ UNCHANGED <<resolveVars, scanVars, qualityVars, cache, lastGet, lastIter>>

\* cls.collection_of, as a value
collection_of(n) ==
    LET ref == LookupCollectionOf(classes[n].mro) IN IF ref = 0 THEN {} ELSE sets[ref]

\* the class whose body supplies attribute `name` of class n, or 0
AttrOwner(n, name) ==
    LET mro == classes[n].mro
        has(i) == mro[i] > 0 /\ name \in classes[mro[i]].body
    IN  IF \E i \in 1..Len(mro) : has(i)
        THEN mro[CHOOSE i \in 1..Len(mro) : has(i) /\ \A j \in 1..(i - 1) : ~has(j)]
        ELSE 0

\* the producers are not marked abstract: every class can be instantiated
InstantiableAlways(n) == IsUserClass(n)

\* ABCMeta: a class can be instantiated when none of the abstract producers
\* it inherits is left abstract
Instantiable(n) ==
    /\ IsUserClass(n)
    /\ \A i \in 1..Len(classes[n].mro) :
          LET t == classes[n].mro[i]
          IN  IsCapability(t) => IsUserClass(AttrOwner(n, ProducerName(classes[t].item)))

\* the extra arguments a caller passes to iter or to a producer
Args == {<<>>, <<"limit">>}

\* calling the producer `name` defined in the body of class `owner` with
\* `args` on an instance: the items of the test backend's sequence
Produce(owner, name, args) ==
    [i \in 1..(2 - Len(args)) |-> [by |-> owner, name |-> name, no |-> i]]

NoIter ==
    [cls |-> 0, kind |-> 0, args |-> <<>>, collection_of |-> {}, outcome |-> "none",
     invoked |-> <<>>, returned |-> <<>>]

\* self.iter(collection_type_, *args) on an instance of class n: the
\* exception it raises, or the name of the producer it invokes, the calls
\* made and the sequence returned
iter(n, collection_type_, args) ==
    IF collection_type_ \in collection_of(n)
    THEN LET func_name_ == plural_noun(lower(ItemName(collection_type_)))
             owner == AttrOwner(n, func_name_)
         IN  IF owner = 0
             THEN [outcome |-> "AttributeError", invoked |-> <<>>, returned |-> <<>>]
             ELSE [outcome |-> func_name_,
                   invoked |-> <<[cls |-> owner, name |-> func_name_, args |-> args]>>,
                   returned |-> Produce(owner, func_name_, args)]
    ELSE [outcome |-> "KeyError", invoked |-> <<>>, returned |-> <<>>]

\* a caller evaluates instance.iter(k, *args) on an instance of class n
CallIter(n, k, args) ==
    /\ n \in 1..Len(classes)
    /\ Instantiable(n)
    /\ lastIter' = [cls |-> n, kind |-> k, args |-> args,
                    collection_of |-> collection_of(n),
                    outcome |-> iter(n, k, args).outcome,
                    invoked |-> iter(n, k, args).invoked,
                    returned |-> iter(n, k, args).returned]
    /\ UNCHANGED <<resolveVars, scanVars, qualityVars, classes, sets, cache, lastGet>>

----------------------------------------------------------------------------
(* Specifications *)

ResolveIdle ==
    /\ defined = <<>>
    /\ kindsAtInit = <<>>
    /\ call = [t \in Tasks |-> IdleCall]
    /\ prevCall = [url |-> "none", pc |-> "idle", error |-> "none"]

ScanIdle ==
    /\ long_string = <<>>
    /\ gen = NewGen
    /\ yielded = <<>>
    /\ prechecked = <<>>
    /\ attempts = <<>>
    /\ genError = "none"

NoCompare == [op |-> "none", a |-> NoQuality, b |-> NoQuality, result |-> "none"]

\* no Session object yet, of a Session subclass whose _quality is q
NoSession(q) ==
    /\ session = "none"
    /\ sessQuality = q
    /\ required = NoQuality
    /\ preferred = NoQuality
    /\ sessOp = NoOp
    /\ cmp = NoCompare

\* a freshly constructed Session whose _quality is q
LiveSession(q) ==
    /\ session = "live"
    /\ sessQuality = q
    /\ required = min(q)
    /\ preferred = max(q)
    /\ sessOp = [NoOp EXCEPT !.op = "init", !.outcome = "ok"]
    /\ cmp = NoCompare

CollIdle ==
    /\ classes = <<>>
    /\ sets = <<>>
    /\ cache = <<>>
    /\ lastGet = [kind |-> 0, outcome |-> "none", type |-> 0]
    /\ lastIter = NoIter

\* direct object_from_url calls while the backend defines its kinds
InitResolve ==
    /\ ResolveIdle
    /\ ScanIdle
    /\ NoSession("TestAudioQuality")
    /\ CollIdle

NextResolve ==
    \/ \E k \in Kinds : DefineKind(k)
    \/ SessionInit
    \/ \E url \in Words : ObjectFromUrlCall(url)
    \/ TrialEnd("user")

SpecResolve == InitResolve /\ [][NextResolve]_vars

\* one parse_urls generator and its consumer, while the backend defines kinds
InitScan ==
    /\ ResolveIdle
    /\ long_string \in Texts
    /\ gen = NewGen
    /\ yielded = <<>>
    /\ prechecked = <<>>
    /\ attempts = <<>>
    /\ genError = "none"
    /\ LiveSession("TestAudioQuality")
    /\ CollIdle

NextScan ==
    \/ \E k \in Kinds : DefineKind(k)
    \/ GenNext
    \/ GenLoop
    \/ TrialEnd("gen")
    \/ GenHandle
    \/ ConsumerStop

SpecScan == InitScan /\ [][NextScan]_vars

\* comparisons of quality levels
InitCompare ==
    /\ ResolveIdle
    /\ ScanIdle
    /\ NoSession("TestAudioQuality")
    /\ CollIdle

NextCompare ==
    \E op \in CompareOps : \E a, b \in QualityMembers \cup Foreign : Compare(op, a, b)

SpecCompare == InitCompare /\ [][NextCompare]_vars

\* a Session of some backend: its construction and its quality settings
InitSession ==
    /\ ResolveIdle
    /\ ScanIdle
    /\ \E q \in QualityClasses \cup {"unset"} : NoSession(q)
    /\ CollIdle

NextSession ==
    \/ SessionInit
    \/ \E q \in QualityMembers \cup Foreign : SetPreferred(q)
    \/ \E q \in QualityMembers \cup Foreign : SetRequired(q)

SpecSession == InitSession /\ [][NextSession]_vars

\* the item kinds of the test backend: Track, Album, Playlist
ItemKinds == {1, 2, 3}

\* a backend whose module has evaluated ObjectCollection[Track],
\* ObjectCollection[Album] and ObjectCollection[Playlist], in this order,
\* defines collection classes, instantiates them and calls iter
Subscripted ==
    /\ classes = [n \in ItemKinds |->
                    [tag |-> "capability", item |-> n, bases |-> <<ObjectCls, -n>>,
                     mro |-> <<n, ObjectCls, -n>>, own |-> n,
                     body |-> {ProducerName(n)}]]
    /\ sets = [n \in ItemKinds |-> {n}]
    /\ cache = [n \in ItemKinds |-> [key |-> n, type |-> n]]
    /\ lastGet = [kind |-> Cardinality(ItemKinds), outcome |-> "ok",
                  type |-> Cardinality(ItemKinds)]

InitCollection ==
    /\ ResolveIdle
    /\ ScanIdle
    /\ NoSession("TestAudioQuality")
    /\ Subscripted
    /\ lastIter = NoIter

Producers == {ProducerName(k) : k \in ItemKinds}

ClassIds == 1..(Cardinality(ItemKinds) + MaxClasses)

BaseChoices == UNION {[1..n -> ClassIds] : n \in 1..MaxBases}

UserClasses == {n \in 1..Len(classes) : IsUserClass(n)}

NextCollection ==
    \/ /\ Cardinality(UserClasses) < MaxClasses
       /\ \E bases \in BaseChoices : \E body \in SUBSET Producers : DefineClass(bases, body)
    \/ \E n \in ClassIds : \E k \in ItemKinds \cup {NotAnObject} : \E args \in Args :
            CallIter(n, k, args)

SpecCollection == InitCollection /\ [][NextCollection]_vars

\* many item kinds are subscripted, each for the first time in the order of
\* their numbers; the first MaxRepeatKinds of them are also subscripted again
NumCacheKinds == lru_maxsize + 1

\* the item kind with the least number that has not been subscripted yet
NextFresh == Cardinality({classes[n].item : n \in 1..Len(classes)}) + 1

NextCache ==
    \E k \in {j \in 0..MaxRepeatKinds : j < NextFresh}
                \cup {j \in {NextFresh} : j <= NumCacheKinds} :
        /\ Len(classes) <= NumCacheKinds
        /\ GetItem(k)

InitCache ==
    /\ ResolveIdle
    /\ ScanIdle
    /\ NoSession("TestAudioQuality")
    /\ CollIdle

SpecCache == InitCache /\ [][NextCache]_vars

----------------------------------------------------------------------------
(* Reference notions used by the claims about resolution *)

\* the kinds a call started with `d` defined must walk: the direct subclasses
\* of the session's root Object type, in definition order
TrialOrder(d) == SelectSeq(d, LAMBDA k : Parent(k) = Root)

DeclinesURL(cls, url) == from_url(cls, url) \in {"InvalidURL", "NotImplementedError"}

\* position in `order` of the first kind that does not decline url, or 0
FirstNonDecline(order, url) ==
    IF \E j \in 1..Len(order) : ~DeclinesURL(order[j], url)
    THEN CHOOSE j \in 1..Len(order) :
            /\ ~DeclinesURL(order[j], url)
            /\ \A i \in 1..(j - 1) : DeclinesURL(order[i], url)
    ELSE 0

IsPrefix(s, t) == Len(s) <= Len(t) /\ \A i \in 1..Len(s) : s[i] = t[i]

\* how object_from_url(url) must end when started with `d` defined
Resolution(d, url) ==
    LET order == TrialOrder(d)
        j     == FirstNonDecline(order, url)
    IN  IF j = 0 THEN [pc |-> "raised", error |-> "InvalidURL", result |-> NoObject]
        ELSE IF from_url(order[j], url) = "ok"
        THEN [pc |-> "returned", error |-> "none",
              result |-> [kind |-> order[j], url |-> url]]
        ELSE [pc |-> "raised", error |-> from_url(order[j], url), result |-> NoObject]

----------------------------------------------------------------------------
(* C1: object_from_url tries the root type's kinds one after another, in    *)
(* trial order. If the first kind that does not decline the URL returns an  *)
(* object, the call returns that kind's object and no later kind's from_url *)
(* is invoked; if every kind declines, or there is no kind, the call raises *)
(* InvalidURL after trying them all.                                        *)
C1_FirstAcceptingKindWins ==
    \A t \in Tasks :
        LET c     == call[t]
            order == TrialOrder(c.startDefined)
            j     == FirstNonDecline(order, c.url)
        IN  c.pc # "idle" =>
              /\ IsPrefix(c.invoked, order)
              /\ (j > 0 /\ from_url(order[j], c.url) = "ok") =>
                    /\ Len(c.invoked) <= j
                    /\ Finished(c) =>
                          /\ c.pc = "returned"
                          /\ c.result = [kind |-> order[j], url |-> c.url]
                          /\ c.invoked = SubSeq(order, 1, j)
              /\ (j = 0 /\ Finished(c)) =>
                          /\ c.pc = "raised"
                          /\ c.error = "InvalidURL"
                          /\ c.invoked = order

\* a call returned the second kind's object after the first declined, and a
\* later kind that would also have accepted the URL was not invoked
C1_Witness ==
    LET c == call["user"]
    IN  /\ c.pc = "returned"
        /\ Len(c.invoked) = 2
        /\ DeclinesURL(c.invoked[1], c.url)
        /\ c.result.kind = c.invoked[2]
        /\ \E k \in Kinds :
              /\ k \in {c.kinds[i] : i \in 1..Len(c.kinds)}
              /\ k \notin {c.invoked[i] : i \in 1..Len(c.invoked)}
              /\ from_url(k, c.url) = "ok"

(* C2: if a kind's from_url fails with anything but InvalidURL or           *)
(* NotImplementedError, that condition reaches the caller unchanged and no  *)
(* later kind's from_url is invoked, even when a later kind would accept.   *)
C2_OtherFailurePropagates ==
    \A t \in Tasks :
        LET c     == call[t]
            order == TrialOrder(c.startDefined)
            j     == FirstNonDecline(order, c.url)
        IN  (c.pc # "idle" /\ j > 0 /\ from_url(order[j], c.url) # "ok") =>
              /\ Len(c.invoked) <= j
              /\ Finished(c) =>
                    /\ c.pc = "raised"
                    /\ c.error = from_url(order[j], c.url)
                    /\ c.error \notin {"InvalidURL", "NotImplementedError"}
                    /\ c.result = NoObject
                    /\ c.invoked = SubSeq(order, 1, j)

\* a call raised ConnectionError although a kind later in the trial order
\* accepts the URL
C2_Witness ==
    LET c == call["user"]
    IN  /\ c.pc = "raised"
        /\ c.error = "ConnectionError"
        /\ \E i \in 1..Len(c.kinds) :
              /\ i > Len(c.invoked)
              /\ from_url(c.kinds[i], c.url) = "ok"

----------------------------------------------------------------------------
(* Reference notions used by the claims about parse_urls *)

\* the resolutions whose outcome the generator has acted on
Handled ==
    SubSeq(attempts, 1, IF call["gen"].pc = "idle" THEN Len(attempts)
                        ELSE Len(attempts) - 1)

RECURSIVE ObjectsOf(_)
\* the objects of the successful resolutions among `as`, in order
ObjectsOf(as) ==
    IF as = <<>> THEN <<>>
    ELSE LET r == Resolution(Head(as).defined, Head(as).url)
         IN  (IF r.pc = "returned" THEN <<r.result>> ELSE <<>>) \o ObjectsOf(Tail(as))

HardFailure(a) ==
    LET r == Resolution(a.defined, a.url)
    IN  r.pc = "raised" /\ r.error # "InvalidURL"

ValidTokens == SelectSeq(Split(long_string), is_valid_url)

Exhausted == gen.state = "closed" /\ genError = "none" /\ gen.i > Len(gen.words)

C9_OtherConditionEndsScan ==
    \A n \in 1..Len(Handled) :
        HardFailure(attempts[n]) =>
            /\ n = Len(attempts)
            /\ genError = Resolution(attempts[n].defined, attempts[n].url).error
            /\ gen.state = "closed"
            /\ call["gen"].pc = "idle"
            /\ gen.i <= Len(gen.words)
            /\ gen.words[gen.i] = attempts[n].url
            /\ prechecked = SubSeq(gen.words, 1, gen.i)
            /\ yielded = ObjectsOf(SubSeq(attempts, 1, n - 1))

\* the second of three tokens failed with ConnectionError: the first token's
\* object was delivered and the third token was never looked at
C9_Witness ==
    /\ genError = "ConnectionError"
    /\ gen.state = "closed"
    /\ Len(gen.words) = 3
    /\ gen.i = 2
    /\ Len(yielded) = 1
    /\ Len(prechecked) = 2

----------------------------------------------------------------------------
(* C7: a comparison with <, <=, > or >= of two levels taken from two        *)
(* different quality enumerations fails with TypeError; it never yields     *)
(* True or False.                                                           *)
C7_CrossEnumerationComparisonFails ==
    ( /\ cmp.op \in CompareOps
      /\ cmp.a \in QualityMembers
      /\ cmp.b \in QualityMembers
      /\ cmp.a.cls # cmp.b.cls ) => cmp.result = "TypeError"

\* TestAudioQuality.LOW < OtherAudioQuality.LOSSY was evaluated and failed
C7_Witness ==
    /\ cmp.op = "<"
    /\ cmp.a = [cls |-> "TestAudioQuality", name |-> "LOW"]
    /\ cmp.b = [cls |-> "OtherAudioQuality", name |-> "LOSSY"]
    /\ cmp.result = "TypeError"

(* C8: assigning to preferred_audio_quality or required_audio_quality a     *)
(* value that is no member of the session's own quality enumeration fails   *)
(* with TypeError and leaves both settings as they were; both settings of a *)
(* constructed Session are always members of its own enumeration.           *)
C8_SettingsStayInOwnEnumeration ==
    LET own == {MembersOf(sessQuality)[i] : i \in 1..Len(MembersOf(sessQuality))}
    IN  /\ session = "live" => (preferred \in own /\ required \in own)
        /\ (sessOp.op \in {"preferred", "required"} /\ sessOp.value \notin own) =>
              /\ sessOp.outcome = "TypeError"
              /\ <<preferred, required>> = sessOp.before
        /\ (sessOp.op = "preferred" /\ sessOp.value \in own) =>
              (sessOp.outcome = "ok" /\ preferred = sessOp.value)
        /\ (sessOp.op = "required" /\ sessOp.value \in own) =>
              (sessOp.outcome = "ok" /\ required = sessOp.value)

\* a member of another backend's enumeration was assigned to
\* preferred_audio_quality after the setting had been changed from its default
C8_Witness ==
    /\ session = "live"
    /\ sessOp.op = "preferred"
    /\ sessOp.value \in QualityMembers
    /\ sessOp.value.cls # sessQuality
    /\ sessOp.outcome = "TypeError"
    /\ preferred # max(sessQuality)

----------------------------------------------------------------------------
(* Reference notions used by the claims about collections *)

\* the item kinds of the capability types class n is or extends, directly or
\* by inheritance
Declared(n) ==
    {classes[t].item : t \in {m \in {classes[n].mro[i] : i \in 1..Len(classes[n].mro)} :
                                  IsCapability(m)}}

\* the capability types synthesized for item kind k
TypesFor(k) == {n \in 1..Len(classes) : IsCapability(n) /\ classes[n].item = k}

(* C4: after any sequence of class definitions, the collection_of of every  *)
(* class is exactly the set of item kinds of the Collection-of-Kind         *)
(* capabilities the class extends, directly or by inheritance, whichever    *)
(* other classes were defined before or after it.                           *)
C4_CollectionOfIsDeclaredKinds ==
    \A n \in 1..Len(classes) : collection_of(n) = Declared(n)

(* C5: iter(K) on an instance whose class never declared item kind K fails  *)
(* with KeyError(K) and invokes no producer, after any sequence of          *)
(* definitions of other classes.                                            *)
C5_IterOfUndeclaredKindIsKeyError ==
    (lastIter.outcome # "none" /\ lastIter.kind \notin Declared(lastIter.cls)) =>
        lastIter.outcome = "KeyError"

(* C6: ObjectCollection[K] always returns the first capability type         *)
(* synthesized for K, however many other item kinds were subscripted in     *)
(* between; no second type is ever synthesized for the same K.              *)
C6_SameKindSameType ==
    lastGet.outcome = "ok" => TypesFor(lastGet.kind) = {lastGet.type}

----------------------------------------------------------------------------
(* Claims about the order of quality levels *)

\* a is declared before b in the enumeration both belong to
DeclaredBefore(a, b) ==
    /\ a.cls = b.cls
    /\ \E i, j \in 1..Len(_member_names_(a.cls)) :
          i < j /\ _member_names_(a.cls)[i] = a.name /\ _member_names_(a.cls)[j] = b.name

\* what `a op b` is for two levels of one enumeration ordered by declaration
InDeclarationOrder(op, a, b) ==
    CASE op = "<"  -> DeclaredBefore(a, b)
      [] op = "<=" -> DeclaredBefore(a, b) \/ a = b
      [] op = ">"  -> DeclaredBefore(b, a)
      [] op = ">=" -> DeclaredBefore(b, a) \/ a = b

SameEnumeration(a, b) == a \in QualityMembers /\ b \in QualityMembers /\ a.cls = b.cls

C17_DocstringExampleHolds ==
    \A e \in DocstringExample :
        (cmp.op = e.op /\ cmp.a = e.a /\ cmp.b = e.b) => cmp.result = e.result

----------------------------------------------------------------------------
(* Claims about the defaults of a new Session *)

\* C16: right after a Session is constructed its required quality is the
\* first-declared level and its preferred quality the last-declared level of
\* the session's own enumeration, whatever values the levels carry.
C16_DefaultsAreFirstAndLastDeclared ==
    (sessOp.op = "init" /\ sessOp.outcome = "ok") =>
        LET names == _member_names_(sessQuality)
        IN  /\ required = [cls |-> sessQuality, name |-> names[1]]
            /\ preferred = [cls |-> sessQuality, name |-> names[Len(names)]]

\* a Session over an enumeration whose values sort differently from its
\* declaration order ('low', 'med', 'high') has just been constructed
C16_Witness ==
    /\ sessOp.op = "init"
    /\ sessOp.outcome = "ok"
    /\ sessQuality = "TestAudioQuality"
    /\ required.name = "LOW"
    /\ preferred.name = "HIGH"
    /\ ValueRank(required) > ValueRank(preferred)

----------------------------------------------------------------------------
(* Claims about the order of trials within one object_from_url call *)

\* the trials of a call that have started and not completed
InProgress(log) ==
    {p \in 1..Len(log) :
        /\ log[p].ev = "start"
        /\ ~\E q \in (p + 1)..Len(log) : log[q].ev = "end" /\ log[q].kind = log[p].kind}

\* C13: within one object_from_url call at most one kind's from_url is in
\* progress at any time, and a trial starts only right after the previous
\* kind's trial has completed with a decline, also when class statements and
\* the consumer's steps interleave at the suspension points.
C13_TrialsAreSequential ==
    \A t \in Tasks :
        LET log == call[t].log
        IN  /\ Cardinality(InProgress(log)) <= 1
            /\ (call[t].pc = "awaiting") = (InProgress(log) # {})
            /\ \A p \in 1..Len(log) :
                  /\ (log[p].ev = "start" /\ p > 1) =>
                        /\ log[p - 1].ev = "end"
                        /\ log[p - 1].outcome \in {"InvalidURL", "NotImplementedError"}
                        /\ log[p - 1].kind # log[p].kind
                  /\ log[p].ev = "end" =>
                        /\ p > 1
                        /\ log[p - 1] = Started(log[p].kind)

\* a call whose third trial is in progress, two kinds having declined, while
\* a class statement ran at one of its suspension points
C13_Witness ==
    \E t \in Tasks :
        /\ call[t].pc = "awaiting"
        /\ Len(call[t].log) = 5
        /\ call[t].startDefined # defined

----------------------------------------------------------------------------
(* Claims about the laziness of parse_urls and its pre-check *)

\* the urls whose resolution the generator has started, in order
AttemptedUrls == [n \in 1..Len(attempts) |-> attempts[n].url]

\* the tokens of the text
Tokens == Split(long_string)

\* nothing is pre-checked, resolved or yielded beyond what the consumer has
\* asked for, and every token is looked at once at most
LazyAndBounded ==
    /\ gen.requested = 0 => prechecked = <<>> /\ attempts = <<>> /\ yielded = <<>>
    /\ Len(yielded) <= gen.requested
    /\ gen.state = "running" => Len(yielded) = gen.requested - 1
    /\ gen.state = "suspended" => Len(yielded) = gen.requested
    /\ call["gen"].pc # "idle" => gen.state = "running"
    /\ IsPrefix(prechecked, Tokens)
    /\ \E f \in [1..Len(attempts) -> 1..Len(Tokens)] :
          /\ \A n \in 1..Len(attempts) : Tokens[f[n]] = attempts[n].url
          /\ \A n, o \in 1..Len(attempts) : n < o => f[n] < f[o]
    /\ Len(attempts) <= Len(Tokens)
    /\ Len(yielded) <= Len(attempts)
    /\ (gen.state = "running" /\ call["gen"].pc = "idle") =>
            Len(prechecked) = gen.i - 1

\* a step taken while the consumer has no request pending starts nothing
NothingStartsUnasked ==
    (gen.state # "running") =>
        /\ attempts' = attempts
        /\ prechecked' = prechecked
        /\ yielded' = yielded
        /\ call'["gen"] = call["gen"]

\* C14: parse_urls is lazy and finite: nothing is pre-checked or resolved
\* before the consumer asks for an item; after an object is yielded no later
\* token is resolved until the next item is asked for; after the consumer
\* stops nothing more is resolved; each token is resolved once at most, so
\* at most as many objects are yielded as the text has tokens.
C14_ScanIsLazyAndFinite == []LazyAndBounded /\ [][NothingStartsUnasked]_vars

\* the consumer stopped after the first object although two tokens that
\* resolve were still ahead, while kinds kept being defined
C14_Witness ==
    /\ gen.state = "closed"
    /\ gen.requested = 1
    /\ Len(yielded) = 1
    /\ Len(attempts) = 1
    /\ Len(gen.words) = 3
    /\ gen.i = 1
    /\ \A n \in 1..3 : gen.words[n] \in {"svc/track/1", "svc/album/2"}
    /\ Len(defined) = 4

\* C18: a token for which is_valid_url returns false is skipped without any
\* resolution attempt (no from_url is invoked for it), and is_valid_url is
\* evaluated exactly once for each token processed, in the order of the text.
C18_InvalidTokensAreNeverResolved ==
    /\ AttemptedUrls = SelectSeq(prechecked, is_valid_url)
    /\ call["gen"].pc # "idle" => is_valid_url(call["gen"].url)
    /\ \A n \in 1..Len(yielded) : is_valid_url(yielded[n].url)
    /\ gen.state \in {"running", "suspended", "closed"} =>
            \E k \in {gen.i - 1, gen.i} :
                k <= Len(gen.words) /\ prechecked = SubSeq(gen.words, 1, k)
    /\ gen.state = "suspended" => prechecked = SubSeq(gen.words, 1, gen.i)

\* the scan is over: a token that fails the pre-check, which a defined kind
\* would have accepted, sits between two tokens that were resolved
C18_Witness ==
    /\ Exhausted
    /\ gen.words = <<"svc/track/1", "foo", "svc/album/2">>
    /\ prechecked = gen.words
    /\ AttemptedUrls = <<"svc/track/1", "svc/album/2">>
    /\ Len(yielded) = 2
    /\ \E n \in 1..Len(defined) : defined[n] = "Track"

----------------------------------------------------------------------------
(* Claims about the kinds object_from_url enumerates *)

RECURSIVE ExtendsRoot(_)
\* k extends the session's root Object type, directly or through other kinds
ExtendsRoot(k) == Parent(k) = Root \/ (Parent(k) \in Kinds /\ ExtendsRoot(Parent(k)))

\* the kinds registered under the root type when a call started with `d` defined
Registered(d) == {d[i] : i \in 1..Len(d)} \cap {k \in Kinds : ExtendsRoot(k)}

\* C19: object_from_url enumerates every kind registered under the session's
\* root Object type, also one that extends it through an intermediate kind:
\* a URL that only such a kind accepts, the others declining it, resolves to
\* an instance of that kind and does not raise InvalidURL.
C19_IndirectKindsAreEnumerated ==
    \A t \in Tasks :
        LET c == call[t]
        IN  Finished(c) =>
              \A k \in Registered(c.startDefined) :
                  ( /\ Parent(k) # Root
                    /\ from_url(k, c.url) = "ok"
                    /\ \A j \in Registered(c.startDefined) \ {k} : DeclinesURL(j, c.url) )
                  => (c.pc = "returned" /\ c.result = [kind |-> k, url |-> c.url])

----------------------------------------------------------------------------
(* Claims about producers, instantiation and the effect of a class statement *)

\* some class of n's mro that a class statement defined supplies `name`
Supplies(n, name) ==
    \E i \in 1..Len(classes[n].mro) :
        IsUserClass(classes[n].mro[i]) /\ name \in classes[classes[n].mro[i]].body

\* C12: for every instance and every item kind K in its collection_of,
\* iter(K, *args) invokes exactly one producer, the one named plural_noun of
\* K's lower-cased name, which is the name ObjectCollection[K] declares as
\* its abstract producer, passes the arguments through and returns the
\* sequence the named accessor returns.
C12_IterInvokesTheNamedProducer ==
    (lastIter.outcome # "none" /\ lastIter.kind \in lastIter.collection_of) =>
        /\ Len(lastIter.invoked) = 1
        /\ lastIter.invoked[1].name = ProducerName(lastIter.kind)
        /\ lastIter.invoked[1].args = lastIter.args
        /\ \A t \in TypesFor(lastIter.kind) : classes[t].body = {lastIter.invoked[1].name}
        /\ lastIter.returned = Produce(AttrOwner(lastIter.cls, ProducerName(lastIter.kind)),
                                       ProducerName(lastIter.kind), lastIter.args)

\* C15: a class that has been instantiated supplies, itself or through an
\* ancestor, the producer of every Collection-of-Kind capability it extends;
\* a class that leaves one out is never instantiated.
C15_MissingProducerNeverInstantiated ==
    lastIter.outcome # "none" =>
        \A k \in Declared(lastIter.cls) : Supplies(lastIter.cls, ProducerName(k))

\* an instance of a class extending two capabilities and supplying both
\* producers exists, next to a class that leaves its producer out
C15_Witness ==
    /\ lastIter.outcome # "none"
    /\ Cardinality(Declared(lastIter.cls)) = 2
    /\ \E m \in UserClasses :
          \E k \in Declared(m) : ~Supplies(m, ProducerName(k))

\* no class that exists changes its collection_of in this step
CollectionOfUnchanged ==
    \A n \in 1..Len(classes) : collection_of(n)' = collection_of(n)

\* C20: a class statement extending Collection-of-Kind capabilities changes
\* only the new class's collection_of: that of every class defined before
\* and of every memoized capability type stays as it was, and
\* ObjectCollection[K].collection_of stays {K}.
C20_DefinitionChangesOnlyNewClass ==
    /\ [][CollectionOfUnchanged]_vars
    /\ [](\A n \in 1..Len(classes) : IsCapability(n) => collection_of(n) = {classes[n].item})

====
